---- MODULE Spec2Model ----
(***************************************************************************)
(* CEAP dashboard data preparation (scripts/prepare-data.py).              *)
(*                                                                         *)
(* Units.  Monetary amounts are integers in centavos (1/100 BRL); the      *)
(* tables used here hold amounts whose sums are exact in binary floating   *)
(* point wherever a comparison sits on a boundary.  Risk scores and        *)
(* p-values are integers in 1/1000, percentages and z-scores are exact     *)
(* rationals compared by cross-multiplication, reported values are         *)
(* integers in 1/100 after the code's round(x, 2).                         *)
(***************************************************************************)
EXTENDS Integers, Sequences, FiniteSets, TLC

VARIABLES
    pc,              \* control point of the running function
    expenses,        \* data["expenses"]: one group descriptor per legislator
    hhi_df,          \* data["hhi"]: shape and index per legislator name
    idx,             \* loop position of pass 1 (groupby) / pass 2
    loc,             \* locals of the pass-1 loop body for the current group
    deputies,        \* the list `deputies` of generate_deputies
    party_stats,     \* party -> [mean, std] (as exact sums), after pass 1
    state_stats,     \* uf -> [mean, std]
    values,          \* the series handed to calculate_benford_analysis
    first_digits,    \* values.apply(get_first_digit).dropna()
    benford_result,  \* the dict calculate_benford_analysis returns
    df,              \* the table validate_expenses inspects (main)
    validation,      \* (is_valid, errors, warnings) in main
    saved,           \* files written by save_json, in order
    pair             \* two evidence tuples scored side by side

vars == <<pc, expenses, hhi_df, idx, loc, deputies, party_stats, state_stats,
          values, first_digits, benford_result, df, validation, saved, pair>>

----------------------------------------------------------------------------
(* Bounds of the explored input sets.                                      *)

\* legislators in the expense table
NumDeputies == 6
\* largest multiplicity of each of the two free amounts of a digit sample
MaxExtra == 4

----------------------------------------------------------------------------
(* Values and generic helpers.                                             *)

\* a missing amount (pd.isna)
NaN == -1000000000
\* get_first_digit's None
None == -1

IsNa(value) == value = NaN

Abs(x) == IF x < 0 THEN -x ELSE x
Min(a, b) == IF a <= b THEN a ELSE b
Max(a, b) == IF a >= b THEN a ELSE b

RECURSIVE SumSeq(_)
SumSeq(s) == IF s = <<>> THEN 0 ELSE Head(s) + SumSeq(Tail(s))

\* floor(a * a / d) for a >= 0, d > 0, without forming a * a
SquareDiv(a, d) == a * (a \div d) + (a * (a % d)) \div d

\* round(n / d) to the nearest integer, n >= 0, d > 0
RoundDiv(n, d) == (2 * n + d) \div (2 * d)

----------------------------------------------------------------------------
(* str(float) for a positive amount, as a sequence of characters.          *)

DigitChar == <<"0", "1", "2", "3", "4", "5", "6", "7", "8", "9">>

RECURSIVE NatStr(_)
NatStr(n) == IF n < 10 THEN <<DigitChar[n + 1]>>
             ELSE NatStr(n \div 10) \o <<DigitChar[(n % 10) + 1]>>

\* repr of the float cents/100: "12.0", "12.5", "12.05"
FloatStr(cents) ==
    LET whole == cents \div 100
        frac == cents % 100
    IN NatStr(whole) \o <<".">> \o
       (IF frac % 10 = 0 THEN <<DigitChar[(frac \div 10) + 1]>>
        ELSE <<DigitChar[(frac \div 10) + 1], DigitChar[(frac % 10) + 1]>>)

RECURSIVE LStrip(_, _)
LStrip(s, ch) == IF s # <<>> /\ Head(s) = ch THEN LStrip(Tail(s), ch) ELSE s

Replace(s, ch) == SelectSeq(s, LAMBDA c : c # ch)

CharToInt(c) == CHOOSE d \in 0..9 : DigitChar[d + 1] = c

\* the round-value test reduced to its first conjunct
IsWholeValue(value) ==
    IF IsNa(value) THEN FALSE
    ELSE value % 100 = 0

\* is_round_value
IsRoundValue(value) ==
    IF IsNa(value) THEN FALSE
    ELSE value % 100 = 0 /\ value % 10000 = 0

\* get_first_digit
GetFirstDigit(value) ==
    IF IsNa(value) \/ value <= 0 THEN None
    ELSE LET s == Replace(Replace(LStrip(FloatStr(Abs(value)), "0"), "."), "-")
         IN IF Len(s) = 0 THEN None ELSE CharToInt(s[1])

----------------------------------------------------------------------------
(* calculate_benford_analysis.  A series is a sequence of runs             *)
(* [amt, n, sup]: n transactions of amount amt paid to supplier sup.       *)

Digits == 1..9

\* BENFORD_EXPECTED, in 1/10 percent
BENFORD_EXPECTED == <<301, 176, 125, 97, 79, 67, 58, 51, 46>>

\* minimum number of first digits for the test to run
MinDigits == 50
\* critical values of chi-squared at df = 8, in 1/1000
Chi2Critical001 == 20090
Chi2Critical005 == 15510

\* one more run of the series counted under its first digit; a run without
\* a digit (None) is dropped
TallyRun(counts, digit, n) ==
    IF digit = None THEN counts ELSE [counts EXCEPT ![digit] = @ + n]

RECURSIVE Tally(_, _)
Tally(vals, counts) ==
    IF vals = <<>> THEN counts
    ELSE Tally(Tail(vals),
               TallyRun(counts, GetFirstDigit(Head(vals).amt), Head(vals).n))

\* values.apply(get_first_digit).dropna(), as digit -> occurrences
FirstDigits(vals) == Tally(vals, [d \in 0..9 |-> 0])

\* len(first_digits)
LenDigits(fd) == SumSeq([i \in 1..10 |-> fd[i - 1]])

\* value_counts().reindex(range(1, 10), fill_value=0).sum()
TotalDigits(fd) == SumSeq([d \in Digits |-> fd[d]])

\* one digit's chi-squared contribution, floor of 1000 * (o - e)^2 / e
Chi2Term(fd, d) ==
    LET total == TotalDigits(fd)
        e1000 == total * BENFORD_EXPECTED[d]
    IN IF e1000 > 0 THEN SquareDiv(Abs(1000 * fd[d] - e1000), e1000) ELSE 0

\* chi2 in 1/1000: the sum of the nine floors, at most 0.009 below the
\* exact statistic
Chi2(fd) == SumSeq([d \in Digits |-> Chi2Term(fd, d)])

\* round(observed_pct, 2), in 1/100 percent
ObservedPct(fd, d) ==
    IF TotalDigits(fd) > 0 THEN RoundDiv(fd[d] * 10000, TotalDigits(fd)) ELSE 0

NeutralBenford ==
    [chi2 |-> 0, pValue |-> 1000, significant |-> FALSE,
     digitDistribution |->
        [d \in Digits |-> [observed |-> 0, expected |-> BENFORD_EXPECTED[d]]]]

\* the body with the 0.05 band folded into the non-significant result
BenfordResultOneCut(fd) ==
    IF LenDigits(fd) < MinDigits THEN NeutralBenford
    ELSE LET chi2 == Chi2(fd)
             dist == [d \in Digits |->
                        [observed |-> ObservedPct(fd, d),
                         expected |-> BENFORD_EXPECTED[d]]]
         IN IF chi2 > Chi2Critical001
            THEN [chi2 |-> RoundDiv(chi2, 10), pValue |-> 10,
                  significant |-> TRUE, digitDistribution |-> dist]
            ELSE [chi2 |-> RoundDiv(chi2, 10), pValue |-> 100,
                  significant |-> FALSE, digitDistribution |-> dist]

\* the body of calculate_benford_analysis once first_digits is known
BenfordResult(fd) ==
    IF LenDigits(fd) < MinDigits THEN NeutralBenford
    ELSE LET chi2 == Chi2(fd)
             dist == [d \in Digits |->
                        [observed |-> ObservedPct(fd, d),
                         expected |-> BENFORD_EXPECTED[d]]]
         IN IF chi2 > Chi2Critical001
            THEN [chi2 |-> RoundDiv(chi2, 10), pValue |-> 10,
                  significant |-> TRUE, digitDistribution |-> dist]
            ELSE IF chi2 > Chi2Critical005
            THEN [chi2 |-> RoundDiv(chi2, 10), pValue |-> 50,
                  significant |-> TRUE, digitDistribution |-> dist]
            ELSE [chi2 |-> RoundDiv(chi2, 10), pValue |-> 100,
                  significant |-> FALSE, digitDistribution |-> dist]

CalculateBenfordAnalysis(vals) ==
    CHOOSE result \in {BenfordResult(fd) : fd \in {FirstDigits(vals)}} : TRUE

----------------------------------------------------------------------------
(* generate_deputies, pass 1: per-group aggregates and base score.         *)

\* group[value_col].sum(): missing amounts are skipped
RECURSIVE GroupTotal(_)
GroupTotal(txns) ==
    IF txns = <<>> THEN 0
    ELSE (IF IsNa(Head(txns).amt) THEN 0 ELSE Head(txns).amt * Head(txns).n)
         + GroupTotal(Tail(txns))

\* len(group)
RECURSIVE GroupCount(_)
GroupCount(txns) ==
    IF txns = <<>> THEN 0 ELSE Head(txns).n + GroupCount(Tail(txns))

\* group[value_col].apply(is_round_value).sum()
RECURSIVE RoundCount(_)
RoundCount(txns) ==
    IF txns = <<>> THEN 0
    ELSE (IF IsRoundValue(Head(txns).amt) THEN Head(txns).n ELSE 0)
         + RoundCount(Tail(txns))

\* round_value_pct as the exact fraction num/den (percent)
RoundValuePct(txns) ==
    IF GroupCount(txns) > 0
    THEN [num |-> 100 * RoundCount(txns), den |-> GroupCount(txns)]
    ELSE [num |-> 0, den |-> 1]

\* a percentage num/den compared with a whole number of percent
PctAbove(pct, limit) == pct.num > limit * pct.den

SupplierValue(txns, sup) ==
    GroupTotal(SelectSeq(txns, LAMBDA r : r.sup = sup))

\* suppliers by descending total: groupby(supplier).sum().sort_values(desc)
RECURSIVE RankSuppliers(_, _)
RankSuppliers(txns, sups) ==
    IF sups = {} THEN <<>>
    ELSE LET top == CHOOSE a \in sups :
                      \A b \in sups : SupplierValue(txns, a) >= SupplierValue(txns, b)
         IN <<top>> \o RankSuppliers(txns, sups \ {top})

\* number of suppliers kept in top_suppliers
TopN == 5

\* top_suppliers: the first five, each with its share of total_spending
TopSuppliers(txns, supplier_col) ==
    IF ~supplier_col THEN <<>>
    ELSE LET ranked == RankSuppliers(txns, {txns[i].sup : i \in DOMAIN txns})
             total == GroupTotal(txns)
         IN [i \in 1..Min(TopN, Len(ranked)) |->
               [name |-> ranked[i],
                value |-> SupplierValue(txns, ranked[i]),
                pct |-> IF total > 0
                        THEN [num |-> 100 * SupplierValue(txns, ranked[i]),
                              den |-> total]
                        ELSE [num |-> 0, den |-> 1]]]

\* the fallback index and label when the HHI table has nothing for a name
DefaultHHI == 1500
NoRow == -1

UpperLabel(label) ==
    CASE label = "baixo" -> "BAIXO"
      [] label = "medio" -> "MEDIO"
      [] label = "alto" -> "ALTO"
      [] label = "critico" -> "CRITICO"
      [] OTHER -> label

\* hhi_value, hhi_level for one legislator name
HhiLookup(hhi, name) ==
    IF hhi.shape = "rows" /\ hhi.rows[name].HHI # NoRow
    THEN [value |-> hhi.rows[name].HHI,
          level |-> UpperLabel(hhi.rows[name].Nivel_Concentracao)]
    ELSE [value |-> DefaultHHI, level |-> "MEDIO"]

\* cut points of the concentration index
HhiCritical == 3000
HhiHigh == 2500
HhiMedium == 1500

\* the ladder with inclusive cut points
BaseRiskInclusive(hhi_value) ==
    IF hhi_value >= HhiCritical THEN [risk_level |-> "CRITICO", risk_score |-> 900]
    ELSE IF hhi_value >= HhiHigh THEN [risk_level |-> "ALTO", risk_score |-> 700]
    ELSE IF hhi_value >= HhiMedium THEN [risk_level |-> "MEDIO", risk_score |-> 400]
    ELSE [risk_level |-> "BAIXO", risk_score |-> 200]

\* "Determine risk level": tier and base score from the index
BaseRisk(hhi_value) ==
    IF hhi_value > HhiCritical THEN [risk_level |-> "CRITICO", risk_score |-> 900]
    ELSE IF hhi_value > HhiHigh THEN [risk_level |-> "ALTO", risk_score |-> 700]
    ELSE IF hhi_value > HhiMedium THEN [risk_level |-> "MEDIO", risk_score |-> 400]
    ELSE [risk_level |-> "BAIXO", risk_score |-> 200]

\* thresholds and increments of pass 1
RoundPctLimit == 20
RoundPenalty == 100
BenfordPenalty == 150
TopPctLimit == 50
MaxScore == 1000

\* the round-number step taking the increment off instead of adding it
AddRoundDiscount(risk_score, round_value_pct) ==
    IF PctAbove(round_value_pct, RoundPctLimit)
    THEN risk_score - RoundPenalty
    ELSE risk_score

\* "if round_value_pct > 20": the score after the round-number test
AddRound(risk_score, round_value_pct) ==
    IF PctAbove(round_value_pct, RoundPctLimit)
    THEN Min(risk_score + RoundPenalty, MaxScore)
    ELSE risk_score

\* the digit-test increment with the cap left out
AddBenfordNoCap(risk_score, benford) ==
    IF benford.significant THEN risk_score + BenfordPenalty ELSE risk_score

\* "if benford_result['significant']": the score after the digit test
AddBenford(risk_score, benford) ==
    IF benford.significant
    THEN Min(risk_score + BenfordPenalty, MaxScore)
    ELSE risk_score

TopAbove(top_suppliers) ==
    Len(top_suppliers) > 0 /\ PctAbove(top_suppliers[1].pct, TopPctLimit)

\* the first three red flags with the round-value entry ahead of the
\* top-supplier entry
Pass1FlagsRoundFirst(hhi_value, top_suppliers, round_value_pct) ==
    (IF hhi_value > HhiHigh THEN <<"hhi">> ELSE <<>>)
    \o (IF PctAbove(round_value_pct, RoundPctLimit) THEN <<"round">> ELSE <<>>)
    \o (IF TopAbove(top_suppliers) THEN <<"top">> ELSE <<>>)

\* "Get red flags": the entries for concentration, top supplier and round
\* values, in the order of the three if statements
Pass1Flags(hhi_value, top_suppliers, round_value_pct) ==
    (IF hhi_value > HhiHigh THEN <<"hhi">> ELSE <<>>)
    \o (IF TopAbove(top_suppliers) THEN <<"top">> ELSE <<>>)
    \o (IF PctAbove(round_value_pct, RoundPctLimit) THEN <<"round">> ELSE <<>>)

----------------------------------------------------------------------------
(* generate_deputies: activity filter, peer statistics, pass 2.            *)

\* MIN_SPENDING (BRL) and MIN_TRANSACTIONS
MIN_SPENDING == 50000
MIN_TRANSACTIONS == 20

\* the activity condition with exclusive floors
IsActiveStrict(d) ==
    d.totalSpending > MIN_SPENDING * 100 /\ d.transactionCount > MIN_TRANSACTIONS

\* the condition of the list comprehension that drops inactive deputies
IsActive(d) ==
    d.totalSpending >= MIN_SPENDING * 100 /\ d.transactionCount >= MIN_TRANSACTIONS

\* [d for d in deputies if ...]
FilterInactive(deps) == SelectSeq(deps, IsActive)

\* party_spending[key] / state_spending[key]: the spends of one group, in
\* list order
SpendingOf(deps, field, key) ==
    LET members == SelectSeq(deps, LAMBDA d : d[field] = key)
    IN [i \in 1..Len(members) |-> members[i].totalSpending]

\* ---- binary floating point: np.mean of a group of equal spends ----
\* Spends are doubles; the mean of n equal doubles x is fl(fl(x + ... + x) / n),
\* which is x itself only when no step rounds.
\* Each operator below names its arguments once, as the members of singleton
\* sets, so that an argument is worked out once however often it is used.

\* binary digits of a natural number, most significant first
RECURSIVE NatBits(_)
NatBits(n) == IF n = 0 THEN <<>> ELSE NatBits(n \div 2) \o <<n % 2>>

\* width of the significand of a double
MantissaBits == 53

Zeros(k) == [i \in 1..k |-> 0]

\* long division of the binary number b by a small divisor d, entered with
\* remainder r: the quotient digits followed by the final remainder
RECURSIVE DivBits(_, _, _)
DivBits(b0, d, r0) ==
    CHOOSE s \in {
        IF Len(b) = 0 THEN <<r>>
        ELSE IF Len(b) = 1 THEN <<(2 * r + b[1]) \div d, (2 * r + b[1]) % d>>
        ELSE CHOOSE t \in {SubSeq(hi, 1, Len(hi) - 1)
                              \o DivBits(SubSeq(b, Len(b) \div 2 + 1, Len(b)), d, hi[Len(hi)]) :
                           hi \in {DivBits(SubSeq(b, 1, Len(b) \div 2), d, r)}} : TRUE :
        b \in {b0}, r \in {r0}} : TRUE

\* sum of two binary numbers of equal length entered with a carry: the
\* carry out followed by the digits of the sum
RECURSIVE AddBits(_, _, _)
AddBits(a0, b0, carry0) ==
    CHOOSE s \in {
        IF Len(a) = 0 THEN <<carry>>
        ELSE IF Len(a) = 1 THEN <<(a[1] + b[1] + carry) \div 2, (a[1] + b[1] + carry) % 2>>
        ELSE CHOOSE t \in {AddBits(SubSeq(a, 1, Len(a) \div 2), SubSeq(b, 1, Len(a) \div 2), lo[1])
                              \o Tail(lo) :
                           lo \in {AddBits(SubSeq(a, Len(a) \div 2 + 1, Len(a)),
                                           SubSeq(b, Len(a) \div 2 + 1, Len(a)), carry)}} : TRUE :
        a \in {a0}, b \in {b0}, carry \in {carry0}} : TRUE

\* a binary number without its leading zeros
StripZeros(b0) ==
    CHOOSE s \in {
        IF \A k \in DOMAIN b : b[k] = 0 THEN <<>>
        ELSE SubSeq(b, CHOOSE k \in DOMAIN b : b[k] = 1 /\ \A j \in 1..(k - 1) : b[j] = 0,
                    Len(b)) :
        b \in {b0}} : TRUE

\* round-to-nearest-even of a binary number (with a sticky flag for digits
\* already dropped) to 53 digits: the significand and the digits shifted out
RoundBits(b0, sticky) ==
    CHOOSE s \in {
        IF Len(b) <= MantissaBits
        THEN [bits |-> b \o Zeros(MantissaBits - Len(b)), shift |-> Len(b) - MantissaBits]
        ELSE CHOOSE t \in {
                 IF Len(inc) > MantissaBits
                 THEN [bits |-> SubSeq(inc, 1, MantissaBits),
                       shift |-> Len(b) - MantissaBits + 1]
                 ELSE [bits |-> inc, shift |-> Len(b) - MantissaBits] :
                 inc \in {IF /\ b[MantissaBits + 1] = 1
                             /\ \/ sticky
                                \/ \E i \in (MantissaBits + 2)..Len(b) : b[i] = 1
                                \/ b[MantissaBits] = 1
                          THEN StripZeros(AddBits(SubSeq(b, 1, MantissaBits),
                                                  Zeros(MantissaBits), 1))
                          ELSE SubSeq(b, 1, MantissaBits)}} : TRUE :
        b \in {b0}} : TRUE

\* a double as significand and exponent: bits * 2^exp
MakeFloat(rounded0, exp) ==
    CHOOSE f \in {[bits |-> rounded.bits, exp |-> exp + rounded.shift] :
                  rounded \in {rounded0}} : TRUE

\* float(cents / 100): the double nearest to an amount given in centavos
FloatOfCents(cents) ==
    CHOOSE f \in {MakeFloat(RoundBits(StripZeros(SubSeq(d, 1, Len(d) - 1)),
                                      d[Len(d)] # 0), -60) :
                  d \in {DivBits(NatBits(cents) \o Zeros(60), 100, 0)}} : TRUE

\* x + y for doubles with x.exp >= y.exp
FloatAdd(x0, y0) ==
    CHOOSE f \in {
        MakeFloat(RoundBits(StripZeros(
            AddBits(x.bits \o Zeros(x.exp - y.exp),
                    Zeros(Len(x.bits) + x.exp - y.exp - Len(y.bits)) \o y.bits, 0)),
            FALSE), y.exp) :
        x \in {x0}, y \in {y0}} : TRUE

\* x / n for a double and a small positive integer
FloatDivInt(x0, n) ==
    CHOOSE f \in {
        CHOOSE g \in {MakeFloat(RoundBits(StripZeros(SubSeq(d, 1, Len(d) - 1)),
                                          d[Len(d)] # 0), x.exp - 5) :
                      d \in {DivBits(x.bits \o Zeros(5), n, 0)}} : TRUE :
        x \in {x0}} : TRUE

\* the running sum x + x + ... + x of n equal terms
RECURSIVE FloatSumSame(_, _)
FloatSumSame(x, n) ==
    IF n = 1 THEN x ELSE FloatAdd(FloatSumSame(x, n - 1), x)

\* -1, 0, 1 as the binary number a is below, equal to or above b (equal length)
BitsCompare(a0, b0) ==
    CHOOSE c \in {
        IF a = b THEN 0
        ELSE IF a[CHOOSE k \in 1..Len(a) :
                      a[k] # b[k] /\ \A j \in 1..(k - 1) : a[j] = b[j]] = 1
             THEN 1 ELSE -1 :
        a \in {a0}, b \in {b0}} : TRUE

\* -1, 0, 1 as x is below, equal to or above y
FloatCompare(x0, y0) ==
    CHOOSE c \in {
        IF x.exp # y.exp THEN (IF x.exp > y.exp THEN 1 ELSE -1)
        ELSE BitsCompare(x.bits, y.bits) :
        x \in {x0}, y \in {y0}} : TRUE

\* np.mean of n equal spends compared with the spend itself
FloatMeanNoise(cents, n) ==
    CHOOSE c \in {FloatCompare(FloatDivInt(FloatSumSame(x, n), n), x) :
                  x \in {FloatOfCents(cents)}} : TRUE

\* the same, sparing the digit arithmetic for a multiple of 0.25: such a
\* spend has free low digits in its significand, so no step rounds
MeanNoise(cents, n) ==
    IF cents % 25 = 0 THEN 0 ELSE FloatMeanNoise(cents, n)

\* x + y for any two doubles
FloatAddAny(x0, y0) ==
    CHOOSE f \in {IF x.exp >= y.exp THEN FloatAdd(x, y) ELSE FloatAdd(y, x) :
                  x \in {x0}, y \in {y0}} : TRUE

\* the digits of two doubles written to their common lower exponent, at
\* equal length
AlignedDigits(x0, y0) ==
    CHOOSE al \in {
        [a |-> Zeros(Max(y.exp - x.exp + Len(y.bits) - Len(x.bits), 0))
                  \o x.bits \o Zeros(Max(x.exp - y.exp, 0)),
         b |-> Zeros(Max(x.exp - y.exp + Len(x.bits) - Len(y.bits), 0))
                  \o y.bits \o Zeros(Max(y.exp - x.exp, 0)),
         exp |-> IF x.exp <= y.exp THEN x.exp ELSE y.exp] :
        x \in {x0}, y \in {y0}} : TRUE

\* a - b for binary numbers of equal length with a >= b
SubBits(a, b0) ==
    CHOOSE s \in {Tail(AddBits(a, [i \in 1..Len(b) |-> 1 - b[i]], 1)) :
                  b \in {b0}} : TRUE

\* |x - y|
FloatAbsDiff(x, y) ==
    CHOOSE f \in {
        MakeFloat(RoundBits(StripZeros(IF BitsCompare(al.a, al.b) >= 0
                                       THEN SubBits(al.a, al.b)
                                       ELSE SubBits(al.b, al.a)), FALSE), al.exp) :
        al \in {AlignedDigits(x, y)}} : TRUE

\* the product of two binary numbers, Len(a) + Len(b) digits long
RECURSIVE MulBits(_, _)
MulBits(a0, b0) ==
    CHOOSE s \in {
        IF Len(b) = 1 THEN (IF b[1] = 1 THEN <<0>> \o a ELSE Zeros(Len(a) + 1))
        ELSE CHOOSE t \in {Tail(AddBits(hi \o Zeros(Len(b) - Len(b) \div 2),
                                        Zeros(Len(b) \div 2) \o lo, 0)) :
                           hi \in {MulBits(a, SubSeq(b, 1, Len(b) \div 2))},
                           lo \in {MulBits(a, SubSeq(b, Len(b) \div 2 + 1, Len(b)))}} : TRUE :
        a \in {a0}, b \in {b0}} : TRUE

\* x * y
FloatMul(x0, y0) ==
    CHOOSE f \in {
        MakeFloat(RoundBits(StripZeros(MulBits(x.bits, y.bits)), FALSE), x.exp + y.exp) :
        x \in {x0}, y \in {y0}} : TRUE

\* add.reduce over a list of doubles: the first element plus the running sum
\* of the others
RECURSIVE FloatRunningSum(_, _)
FloatRunningSum(v, k) ==
    IF k = 2 THEN v[2] ELSE FloatAddAny(FloatRunningSum(v, k - 1), v[k])

FloatTotal(v0) ==
    CHOOSE f \in {IF Len(v) = 1 THEN v[1] ELSE FloatAddAny(v[1], FloatRunningSum(v, Len(v))) :
                  v \in {v0}} : TRUE

\* (x - mean) / std > 2.0 in double arithmetic for member i of a group of
\* spends: std < (x - mean) / 2, that is, the variance lies below the square
\* of the midpoint between (x - mean) / 2 and the double before it
FloatAboveTwo(cents, i) ==
    \E v \in {<<>> \o [k \in 1..Len(cents) |-> FloatOfCents(cents[k])]} :
    \E mean \in {FloatDivInt(FloatTotal(v), Len(v))} :
    \E dev \in {<<>> \o [k \in 1..Len(v) |-> FloatAbsDiff(v[k], mean)]} :
    \E variance \in {FloatDivInt(FloatTotal([k \in 1..Len(v) |-> FloatMul(dev[k], dev[k])]),
                                 Len(v))} :
    \E pow2 \in {dev[i].bits = <<1>> \o Zeros(MantissaBits - 1)} :
    \E m \in {IF pow2
              THEN SubBits(dev[i].bits \o <<0, 0>>, Zeros(MantissaBits + 1) \o <<1>>)
              ELSE SubBits(dev[i].bits \o <<0>>, Zeros(MantissaBits) \o <<1>>)} :
    \E mid2 \in {[bits |-> MulBits(m, m),
                  exp |-> 2 * (IF pow2 THEN dev[i].exp - 3 ELSE dev[i].exp - 2)]} :
    \E al \in {AlignedDigits(variance, mid2)} :
    \E am \in {AlignedDigits(v[i], mean)} :
        /\ BitsCompare(am.a, am.b) > 0
        /\ BitsCompare(al.a, al.b) < 0

\* member i of the group stands exactly two population deviations above the
\* mean: n * dev^2 = 4 * dev2 with dev = n * x - sum
OnEdge(vals, i) ==
    LET n == Len(vals)
        sum == SumSeq(vals)
        dev == n * vals[i] - sum
    IN /\ dev > 0
       /\ n * dev * dev
             = 4 * SumSeq([k \in 1..n |-> (n * vals[k] - sum) * (n * vals[k] - sum)])

\* the spends of a group that stand exactly two deviations above the mean
\* and whose z-score comes out above 2.0 in double arithmetic
EdgeSpends(vals) ==
    {vals[i] : i \in {k \in DOMAIN vals : OnEdge(vals, k) /\ FloatAboveTwo(vals, k)}}

\* four equal spends of 100,000.00 and a fifth of 100,001.00
EdgePeerSpend == 2 * MIN_SPENDING * 100
EdgeSpend == EdgePeerSpend + 100

\* the groups of the tables below in which a member stands exactly two
\* deviations above the mean, each with its edge spends worked out once
EdgeGroupFloor ==
    [i \in 1..(NumDeputies - 1) |->
        IF i < NumDeputies - 1 THEN MIN_SPENDING * 100 ELSE MIN_SPENDING * 100 + 25]
EdgeGroupProfile ==
    <<EdgePeerSpend, EdgePeerSpend, EdgePeerSpend, EdgePeerSpend, EdgePeerSpend + 25>>
EdgeGroupAbove ==
    <<EdgePeerSpend, EdgePeerSpend, EdgePeerSpend, EdgePeerSpend, EdgeSpend>>

EdgeOfFloor == EdgeSpends(EdgeGroupFloor)
EdgeOfProfile == EdgeSpends(EdgeGroupProfile)
EdgeOfAbove == EdgeSpends(EdgeGroupAbove)

EdgeSpendsOf(vals) ==
    IF vals = EdgeGroupFloor THEN EdgeOfFloor
    ELSE IF vals = EdgeGroupProfile THEN EdgeOfProfile
    ELSE IF vals = EdgeGroupAbove THEN EdgeOfAbove
    ELSE EdgeSpends(vals)

\* the group statistics with np.std stored as computed, never replaced
GroupStatsNoFloor(vals) ==
    IF Len(vals) >= 2
    THEN LET n == Len(vals)
             sum == SumSeq(vals)
             dev2 == SumSeq([i \in 1..n |-> (n * vals[i] - sum) * (n * vals[i] - sum)])
         IN [n |-> n, sum |-> sum, dev2 |-> dev2, unit |-> FALSE,
             noise |-> IF dev2 = 0 THEN MeanNoise(vals[1], n) ELSE 0,
             edge |-> IF dev2 = 0 THEN {} ELSE EdgeSpendsOf(vals)]
    ELSE [n |-> 1, sum |-> IF Len(vals) > 0 THEN vals[1] ELSE 0,
          dev2 |-> 0, unit |-> TRUE, noise |-> 0, edge |-> {}]

\* mean and std of one group.  mean = sum / n; the population deviation is
\* std = sqrt(dev2 / n) / n with dev2 = SUM (n * x - sum)^2.  When all spends
\* are equal, `noise` is the sign of np.mean(values) - x: a rounded mean
\* leaves every deviation at one ulp and std = |deviation| > 0.  `unit` says
\* that std was not above 0 and was replaced by 1 (BRL); `edge` holds the
\* spends exactly two deviations above the mean that double arithmetic
\* places above 2.0
GroupStats(vals) ==
    IF Len(vals) >= 2
    THEN LET n == Len(vals)
             sum == SumSeq(vals)
             dev2 == SumSeq([i \in 1..n |-> (n * vals[i] - sum) * (n * vals[i] - sum)])
             noise == IF dev2 = 0 THEN MeanNoise(vals[1], n) ELSE 0
         IN [n |-> n, sum |-> sum, dev2 |-> dev2,
             unit |-> ~(dev2 > 0 \/ noise # 0), noise |-> noise,
             edge |-> IF dev2 = 0 THEN {} ELSE EdgeSpendsOf(vals)]
    ELSE [n |-> 1, sum |-> IF Len(vals) > 0 THEN vals[1] ELSE 0,
          dev2 |-> 0, unit |-> TRUE, noise |-> 0, edge |-> {}]

\* the statistics taken before the last deputy of the list is counted
StatsByEarlier(deps, field) ==
    [key \in {deps[i][field] : i \in DOMAIN deps} |->
        GroupStats(SpendingOf(SubSeq(deps, 1, Len(deps) - 1), field, key))]

\* party_stats / state_stats: one entry per key that occurs among deps
StatsBy(deps, field) ==
    [key \in {deps[i][field] : i \in DOMAIN deps} |->
        GroupStats(SpendingOf(deps, field, key))]

\* the z-score threshold, in standard deviations
ZLimit == 2

\* the comparison taken on the magnitude of the z-score
ZAboveMagnitude(spending, st) ==
    LET dev == st.n * spending - st.sum
    IN IF st.unit THEN Abs(dev) > ZLimit * 100 * st.n
       ELSE IF st.noise # 0 THEN Abs(st.noise) > ZLimit
       ELSE \/ st.n * dev * dev > ZLimit * ZLimit * st.dev2
            \/ spending \in st.edge

\* the comparison with 2.0 itself counted as above
ZAboveInclusive(spending, st) ==
    LET dev == st.n * spending - st.sum
    IN IF st.unit THEN dev >= ZLimit * 100 * st.n
       ELSE IF st.noise # 0 THEN -st.noise >= ZLimit
       ELSE dev > 0 /\ st.n * dev * dev >= ZLimit * ZLimit * st.dev2

\* (spending - mean) / std > 2.0
ZAbove(spending, st) ==
    LET dev == st.n * spending - st.sum
    IN IF st.unit THEN dev > ZLimit * 100 * st.n
       ELSE IF st.noise # 0 THEN -st.noise > ZLimit
       ELSE \/ dev > 0 /\ st.n * dev * dev > ZLimit * ZLimit * st.dev2
            \/ spending \in st.edge

\* floor(a * 40000 / d) for 0 <= a, 0 < d, in two steps of 200
Scale40000Div(a, d) ==
    LET q == a \div d
        r == a % d
        q1 == (200 * r) \div d
        r1 == (200 * r) % d
    IN 40000 * q + 200 * q1 + (200 * r1) \div d

\* round(z, 2) in 1/100: the integer nearest to 100 * z; a division by a
\* zero std gives 0.0 / 0.0 = nan
ZRounded(spending, st) ==
    LET dev == st.n * spending - st.sum
        sign == IF dev < 0 THEN -1 ELSE 1
    IN IF st.unit THEN sign * RoundDiv(Abs(dev), st.n)
       ELSE IF st.noise # 0 THEN -100 * st.noise
       ELSE IF st.dev2 = 0 THEN NaN
       ELSE LET four == Scale40000Div(st.n * dev * dev, st.dev2)
                k == CHOOSE j \in 0..(100 * st.n) :
                        /\ (j = 0 \/ (2 * j - 1) * (2 * j - 1) <= four)
                        /\ four < (2 * j + 1) * (2 * j + 1)
            IN sign * k

\* increments of pass 2
TopPenalty == 100
ZPenalty == 80

\* round(risk_score, 2) on a score in 1/1000
Round2(score) == 10 * RoundDiv(score, 10)

\* tier cut points on the final score
TierCritical == 750
TierHigh == 550
TierMedium == 350

\* the tiers cut strictly at the base scores of the concentration ladder
RiskLevelAtBase(score) ==
    IF score > 900 THEN "CRITICO"
    ELSE IF score > 700 THEN "ALTO"
    ELSE IF score > 400 THEN "MEDIO"
    ELSE "BAIXO"

\* "Update risk level based on new score"
RiskLevel(score) ==
    IF score >= TierCritical THEN "CRITICO"
    ELSE IF score >= TierHigh THEN "ALTO"
    ELSE IF score >= TierMedium THEN "MEDIO"
    ELSE "BAIXO"

\* the second-pass score with the top-supplier increment left out
PeerScoreNoTop(d, zp, zs) ==
    LET s0 == d.riskScore
        s2 == IF zp THEN s0 + ZPenalty ELSE s0
        s3 == IF zs THEN s2 + ZPenalty ELSE s2
    IN Min(Round2(s3), MaxScore)

\* the second-pass score without the final cap
PeerScoreNoCap(d, zp, zs) ==
    LET s0 == d.riskScore
        s1 == IF TopAbove(d.topSuppliers) THEN s0 + TopPenalty ELSE s0
        s2 == IF zp THEN s1 + ZPenalty ELSE s1
        s3 == IF zs THEN s2 + ZPenalty ELSE s2
    IN Round2(s3)

\* "Recalculate risk score with new signals" up to the cap
PeerScore(d, zp, zs) ==
    LET s0 == d.riskScore
        s1 == IF TopAbove(d.topSuppliers) THEN s0 + TopPenalty ELSE s0
        s2 == IF zp THEN s1 + ZPenalty ELSE s1
        s3 == IF zs THEN s2 + ZPenalty ELSE s2
    IN Min(Round2(s3), MaxScore)

\* the loop body with the concentration level overwritten by the final tier
PeerAdjustLevel(d, pstats, sstats) ==
    LET inP == d.party \in DOMAIN pstats
        inS == d.uf \in DOMAIN sstats
        zp == inP /\ ZAbove(d.totalSpending, pstats[d.party])
        zs == inS /\ ZAbove(d.totalSpending, sstats[d.uf])
        score == PeerScore(d, zp, zs)
    IN [name |-> d.name, id |-> d.id, party |-> d.party, uf |-> d.uf,
        totalSpending |-> d.totalSpending,
        transactionCount |-> d.transactionCount,
        hhi |-> [value |-> d.hhi.value, level |-> RiskLevel(score)],
        benford |-> d.benford,
        roundValuePct |-> d.roundValuePct,
        topSuppliers |-> d.topSuppliers,
        zScoreParty |-> IF inP THEN ZRounded(d.totalSpending, pstats[d.party]) ELSE 0,
        zScoreState |-> IF inS THEN ZRounded(d.totalSpending, sstats[d.uf]) ELSE 0,
        riskScore |-> score,
        riskLevel |-> RiskLevel(score),
        redFlags |-> d.redFlags
                     \o (IF zp THEN <<"zparty">> ELSE <<>>)
                     \o (IF zs THEN <<"zstate">> ELSE <<>>)]

\* the body of the second-pass loop for one deputy
PeerAdjust(d, pstats, sstats) ==
    LET inP == d.party \in DOMAIN pstats
        inS == d.uf \in DOMAIN sstats
        zp == inP /\ ZAbove(d.totalSpending, pstats[d.party])
        zs == inS /\ ZAbove(d.totalSpending, sstats[d.uf])
        score == PeerScore(d, zp, zs)
    IN [name |-> d.name, id |-> d.id, party |-> d.party, uf |-> d.uf,
        totalSpending |-> d.totalSpending,
        transactionCount |-> d.transactionCount,
        hhi |-> d.hhi, benford |-> d.benford,
        roundValuePct |-> d.roundValuePct,
        topSuppliers |-> d.topSuppliers,
        zScoreParty |-> IF inP THEN ZRounded(d.totalSpending, pstats[d.party]) ELSE 0,
        zScoreState |-> IF inS THEN ZRounded(d.totalSpending, sstats[d.uf]) ELSE 0,
        riskScore |-> score,
        riskLevel |-> RiskLevel(score),
        redFlags |-> d.redFlags
                     \o (IF zp THEN <<"zparty">> ELSE <<>>)
                     \o (IF zs THEN <<"zstate">> ELSE <<>>)]

\* deputies.sort(key=totalSpending, reverse=True): stable, descending
RECURSIVE InsertDesc(_, _)
InsertDesc(sorted, d) ==
    IF sorted = <<>> THEN <<d>>
    ELSE IF Head(sorted).totalSpending >= d.totalSpending
         THEN <<Head(sorted)>> \o InsertDesc(Tail(sorted), d)
         ELSE <<d>> \o sorted

RECURSIVE SortDesc(_)
SortDesc(deps) ==
    IF deps = <<>> THEN <<>>
    ELSE InsertDesc(SortDesc(SubSeq(deps, 1, Len(deps) - 1)), deps[Len(deps)])

\* the ten placeholder records returned for an empty expense table
MockCount == 10

MockDeputy(i) ==
    [id |-> i + 1, name |-> i + 1, party |-> "PARTIDO", uf |-> "SP",
     totalSpending |-> (1000000 - i * 50000) * 100,
     transactionCount |-> 500 - i * 30,
     hhi |-> [value |-> 1500, level |-> "MEDIO"],
     benford |-> [chi2 |-> 1050, pValue |-> 50, significant |-> FALSE],
     roundValuePct |-> [num |-> 5, den |-> 1],
     riskScore |-> 300, riskLevel |-> "MEDIO",
     topSuppliers |-> <<>>, redFlags |-> <<>>,
     zScoreParty |-> 0, zScoreState |-> 0]

----------------------------------------------------------------------------
(* The expense tables explored.  Every legislator's transactions are two   *)
(* large payments (suppliers s1, s2) and small ones to s3 whose leading    *)
(* digits follow `FillerDigits`; the second large payment makes the total  *)
(* equal to `target`.                                                      *)

\* totals around the spending floor, in centavos
SpendFloor == MIN_SPENDING * 100
SpendBelow == SpendFloor - 25
SpendAbove == SpendFloor + 25

\* small payments per leading digit, for each transaction count
FillerDigits(cnt, skew) ==
    IF cnt = 50 THEN (IF skew THEN <<0, 0, 0, 0, 0, 0, 0, 0, 48>>
                      ELSE <<15, 7, 6, 5, 4, 3, 3, 3, 2>>)
    ELSE IF cnt = 20 THEN <<6, 3, 2, 2, 1, 1, 1, 1, 1>>
    ELSE <<5, 3, 2, 2, 1, 1, 1, 1, 1>>

\* how many of the small payments are whole hundreds
RoundFillers(cnt, many) ==
    IF cnt = 50 THEN (IF many THEN 11 ELSE 9) ELSE (IF many THEN 5 ELSE 3)

Fillers(cnt, skew, many) ==
    LET lead == IF skew THEN 9 ELSE 1
        r == RoundFillers(cnt, many)
        plain == [d \in Digits |->
                    [amt |-> d * 100 + 50,
                     n |-> FillerDigits(cnt, skew)[d] - (IF d = lead THEN r ELSE 0),
                     sup |-> "s3"]]
    IN SelectSeq(plain, LAMBDA run : run.n > 0)
       \o <<[amt |-> lead * 10000, n |-> r, sup |-> "s3"]>>

Txns(target, cnt, skew, many, heavy) ==
    LET small == Fillers(cnt, skew, many)
        big1 == IF heavy THEN 2500025 ELSE 2500000
    IN small \o <<[amt |-> big1, n |-> 1, sup |-> "s1"],
                  [amt |-> target - GroupTotal(small) - big1, n |-> 1, sup |-> "s2"]>>

Names == 1..NumDeputies

\* the legislator whose evidence varies freely, one whose activity varies,
\* and their peers
Focus == NumDeputies
Second == NumDeputies - 1

PeerGroup(name) ==
    [name |-> name, party |-> "PA", uf |-> "SP",
     txns |-> Txns(SpendFloor, 20, FALSE, FALSE, FALSE)]

SecondGroups ==
    {[name |-> Second, party |-> "PA", uf |-> "SP",
      txns |-> Txns(k[1], k[2], FALSE, FALSE, FALSE)] :
        k \in {<<SpendFloor, 20>>, <<SpendBelow, 20>>, <<SpendFloor, 19>>}}

FocusGroups ==
    {[name |-> Focus, party |-> party, uf |-> uf,
      txns |-> Txns(target, cs[1], cs[2], many, heavy)] :
        party \in {"PA", "PB"}, uf \in {"SP", "RJ"},
        target \in {SpendBelow, SpendFloor, SpendAbove},
        cs \in {<<19, FALSE>>, <<20, FALSE>>, <<50, FALSE>>, <<50, TRUE>>},
        many \in BOOLEAN, heavy \in BOOLEAN}

EmptyExpenses == [empty |-> TRUE, supplier_col |-> FALSE, groups |-> <<>>]

ExpenseTables ==
    {EmptyExpenses} \cup
    {[empty |-> FALSE, supplier_col |-> TRUE,
      groups |-> [i \in Names |-> IF i = Focus THEN f
                                  ELSE IF i = Second THEN g
                                  ELSE PeerGroup(i)]] :
        f \in FocusGroups, g \in SecondGroups}

\* index values around the cut points
HhiValues == {1500, 1501, 2500, 2501, 3000, 3001}

HhiLabel(v) ==
    IF v > 3000 THEN "critico" ELSE IF v > 2500 THEN "alto"
    ELSE IF v > 1500 THEN "medio" ELSE "baixo"

HhiTables ==
    {[shape |-> sh, rows |-> <<>>] : sh \in {"empty", "nocolumn"}} \cup
    {[shape |-> "rows",
      rows |-> [i \in Names |->
                  IF i = Focus
                  THEN [HHI |-> v, Nivel_Concentracao |-> HhiLabel(v)]
                  ELSE [HHI |-> NoRow, Nivel_Concentracao |-> ""]]] :
        v \in HhiValues \cup {NoRow}}

----------------------------------------------------------------------------
(* generate_deputies as a state machine.                                   *)

NoLoc == [name |-> 0]
NoStats == <<>>
NoBenford == [chi2 |-> 0]
NoDf == [empty |-> TRUE]
NoValidation == [is_valid |-> TRUE]
NoPair == <<>>

IdleBenford ==
    /\ values = <<>>
    /\ first_digits = <<>>
    /\ benford_result = NoBenford

IdleMain ==
    /\ df = NoDf
    /\ validation = NoValidation
    /\ saved = <<>>

IdleDeputies ==
    /\ expenses = EmptyExpenses
    /\ hhi_df = [shape |-> "empty", rows |-> <<>>]
    /\ idx = 0
    /\ loc = NoLoc
    /\ deputies = <<>>
    /\ party_stats = NoStats
    /\ state_stats = NoStats

Init ==
    /\ pc = "gd_start"
    /\ expenses \in ExpenseTables
    /\ hhi_df \in HhiTables
    /\ (expenses.empty => hhi_df.shape = "empty")
    /\ idx = 0
    /\ loc = NoLoc
    /\ deputies = <<>>
    /\ party_stats = NoStats
    /\ state_stats = NoStats
    /\ IdleBenford
    /\ IdleMain
    /\ pair = NoPair

\* "if expenses_df.empty": ten mock deputies are returned
MockDeputies ==
    /\ pc = "gd_start"
    /\ expenses.empty
    /\ deputies' = [i \in 1..MockCount |-> MockDeputy(i - 1)]
    /\ pc' = "gd_return"
    /\ UNCHANGED <<expenses, hhi_df, idx, loc, party_stats, state_stats,
                   values, first_digits, benford_result, df, validation, saved, pair>>

\* one iteration of "for idx, (name, group) in enumerate(groupby)" up to the
\* base score and the Benford analysis
Pass1Group ==
    /\ pc \in {"gd_start", "p1_group"}
    /\ ~expenses.empty
    /\ idx < Len(expenses.groups)
    /\ LET group == expenses.groups[idx + 1]
           hhi == HhiLookup(hhi_df, group.name)
           base == BaseRisk(hhi.value)
       IN loc' = [name |-> group.name,
                  total_spending |-> GroupTotal(group.txns),
                  transaction_count |-> GroupCount(group.txns),
                  round_value_pct |-> RoundValuePct(group.txns),
                  party |-> group.party, uf |-> group.uf,
                  hhi_value |-> hhi.value, hhi_level |-> hhi.level,
                  risk_level |-> base.risk_level,
                  risk_score |-> base.risk_score,
                  top_suppliers |-> TopSuppliers(group.txns, expenses.supplier_col),
                  benford_result |-> CalculateBenfordAnalysis(group.txns),
                  red_flags |-> <<>>]
    /\ pc' = "p1_round"
    /\ UNCHANGED <<expenses, hhi_df, idx, deputies, party_stats, state_stats,
                   values, first_digits, benford_result, df, validation, saved, pair>>

\* red flags for concentration, top supplier and round values; the round-value
\* increment
Pass1Round ==
    /\ pc = "p1_round"
    /\ loc' = [loc EXCEPT
                 !.red_flags = Pass1Flags(loc.hhi_value, loc.top_suppliers,
                                          loc.round_value_pct),
                 !.risk_score = AddRound(loc.risk_score, loc.round_value_pct)]
    /\ pc' = "p1_benford"
    /\ UNCHANGED <<expenses, hhi_df, idx, deputies, party_stats, state_stats,
                   values, first_digits, benford_result, df, validation, saved, pair>>

\* the Benford red flag and increment
Pass1Benford ==
    /\ pc = "p1_benford"
    /\ loc' = [loc EXCEPT
                 !.red_flags = loc.red_flags
                     \o (IF loc.benford_result.significant THEN <<"benford">> ELSE <<>>),
                 !.risk_score = AddBenford(loc.risk_score, loc.benford_result)]
    /\ pc' = "p1_append"
    /\ UNCHANGED <<expenses, hhi_df, idx, deputies, party_stats, state_stats,
                   values, first_digits, benford_result, df, validation, saved, pair>>

\* the dict `deputy` built from the locals of the loop body
DeputyRecord(id, l) ==
    [id |-> id, name |-> l.name, party |-> l.party, uf |-> l.uf,
     totalSpending |-> l.total_spending,
     transactionCount |-> l.transaction_count,
     hhi |-> [value |-> l.hhi_value, level |-> l.hhi_level],
     benford |-> l.benford_result,
     roundValuePct |-> l.round_value_pct,
     riskScore |-> l.risk_score,
     riskLevel |-> l.risk_level,
     topSuppliers |-> l.top_suppliers,
     redFlags |-> l.red_flags]

\* deputies.append(deputy)
Pass1Append ==
    /\ pc = "p1_append"
    /\ deputies' = Append(deputies, DeputyRecord(idx + 1, loc))
    /\ idx' = idx + 1
    /\ pc' = IF idx + 1 < Len(expenses.groups) THEN "p1_group" ELSE "filter"
    /\ UNCHANGED <<expenses, hhi_df, loc, party_stats, state_stats,
                   values, first_digits, benford_result, df, validation, saved, pair>>

\* "Filter out inactive deputies"
Filter ==
    /\ pc = "filter"
    /\ deputies' = FilterInactive(deputies)
    /\ pc' = "stats"
    /\ UNCHANGED <<expenses, hhi_df, idx, loc, party_stats, state_stats,
                   values, first_digits, benford_result, df, validation, saved, pair>>

\* party_spending/party_stats and state_spending/state_stats
ComputeStats ==
    /\ pc = "stats"
    /\ party_stats' = StatsBy(deputies, "party")
    /\ state_stats' = StatsBy(deputies, "uf")
    /\ idx' = 0
    /\ pc' = "p2"
    /\ UNCHANGED <<expenses, hhi_df, loc, deputies,
                   values, first_digits, benford_result, df, validation, saved, pair>>

\* one iteration of the second pass
Pass2Deputy ==
    /\ pc = "p2"
    /\ idx < Len(deputies)
    /\ deputies' = [deputies EXCEPT
                      ![idx + 1] = PeerAdjust(deputies[idx + 1], party_stats, state_stats)]
    /\ idx' = idx + 1
    /\ UNCHANGED <<pc, expenses, hhi_df, loc, party_stats, state_stats,
                   values, first_digits, benford_result, df, validation, saved, pair>>

\* the final sort and return
SortDeputies ==
    /\ pc = "p2"
    /\ idx = Len(deputies)
    /\ deputies' = SortDesc(deputies)
    /\ pc' = "gd_return"
    /\ UNCHANGED <<expenses, hhi_df, idx, loc, party_stats, state_stats,
                   values, first_digits, benford_result, df, validation, saved, pair>>

Next ==
    \/ MockDeputies
    \/ Pass1Group
    \/ Pass1Round
    \/ Pass1Benford
    \/ Pass1Append
    \/ Filter
    \/ ComputeStats
    \/ Pass2Deputy
    \/ SortDeputies

Spec == Init /\ [][Next]_vars

----------------------------------------------------------------------------
(* Properties of generate_deputies (specification Spec).                   *)

Returned == pc = "gd_return"
Scored == Returned /\ ~expenses.empty

\* the five evidence triggers of a returned record, read off its own fields
\* and the peer statistics
RoundTrigger(d) == PctAbove(d.roundValuePct, RoundPctLimit)
BenfordTrigger(d) == d.benford.significant
TopTrigger(d) == TopAbove(d.topSuppliers)
PartyTrigger(d) ==
    d.party \in DOMAIN party_stats /\ ZAbove(d.totalSpending, party_stats[d.party])
StateTrigger(d) ==
    d.uf \in DOMAIN state_stats /\ ZAbove(d.totalSpending, state_stats[d.uf])

\* S: base score plus every triggered increment, nothing clamped
UnclampedSum(d) ==
    BaseRisk(d.hhi.value).risk_score
    + (IF RoundTrigger(d) THEN 100 ELSE 0)
    + (IF BenfordTrigger(d) THEN 150 ELSE 0)
    + (IF TopTrigger(d) THEN 100 ELSE 0)
    + (IF PartyTrigger(d) THEN 80 ELSE 0)
    + (IF StateTrigger(d) THEN 80 ELSE 0)

C2_TierFromScore ==
    Returned =>
        \A i \in DOMAIN deputies :
            deputies[i].riskLevel = RiskLevel(deputies[i].riskScore)

\* the name of the current group has no usable row in the HHI table
NoIndex(name) ==
    hhi_df.shape # "rows" \/ hhi_df.rows[name].HHI = NoRow

\* C3: a legislator without a concentration index is scored as index 1500,
\* concentration tier MEDIO, base risk score 0.40.
C3_DefaultIndex ==
    (pc = "p1_round" /\ NoIndex(loc.name)) =>
        /\ loc.hhi_value = 1500
        /\ loc.hhi_level = "MEDIO"
        /\ loc.risk_level = "MEDIO"
        /\ loc.risk_score = 400

\* C8: the score of the group being processed and every stored riskScore
\* lie in [0, 1] in every state of generate_deputies.
C8_ScoreInUnitInterval ==
    /\ loc # NoLoc => loc.risk_score \in 0..1000
    /\ \A i \in DOMAIN deputies : deputies[i].riskScore \in 0..1000

\* pass 1 reaches the cap with an increment that would pass it (0.9 + 0.1 +
\* 0.15), and pass 2 stores 1.0 for a sum above it
C8_Witness ==
    \/ /\ pc = "p1_append"
       /\ loc.risk_score = 1000
       /\ BaseRisk(loc.hhi_value).risk_score = 900
       /\ loc.benford_result.significant
    \/ /\ Returned
       /\ \E i \in DOMAIN deputies :
             deputies[i].riskScore = 1000 /\ UnclampedSum(deputies[i]) > 1000

\* the groups of the expense table that meet both activity floors
MeetsFloors(group) ==
    /\ GroupTotal(group.txns) >= 50000 * 100
    /\ GroupCount(group.txns) >= 20

\* the eligible groups in table order, each with its total spend
RECURSIVE Eligible(_)
Eligible(groups) ==
    IF groups = <<>> THEN <<>>
    ELSE (IF MeetsFloors(Head(groups))
          THEN <<[name |-> Head(groups).name, party |-> Head(groups).party,
                  uf |-> Head(groups).uf,
                  totalSpending |-> GroupTotal(Head(groups).txns)]>>
          ELSE <<>>)
         \o Eligible(Tail(groups))

\* C10: after the filter the list holds exactly the legislators with
\* total spend >= 50,000 and >= 20 transactions, and the party and state
\* statistics are the mean/std of exactly these legislators' totals.
C10_ActivityFilter ==
    (pc \in {"stats", "p2", "gd_return"} /\ ~expenses.empty) =>
        \A eligible \in {Eligible(expenses.groups)} :
            /\ {deputies[i].name : i \in DOMAIN deputies}
                  = {eligible[i].name : i \in DOMAIN eligible}
            /\ pc # "stats" =>
                  /\ party_stats = StatsBy(eligible, "party")
                  /\ state_stats = StatsBy(eligible, "uf")

\* one legislator exactly on both floors is returned, one 0.25 below the
\* spending floor is not and is missing from its party's statistics
C10_Witness ==
    /\ Returned /\ ~expenses.empty
    /\ GroupTotal(expenses.groups[Focus].txns) = SpendFloor
    /\ GroupCount(expenses.groups[Focus].txns) = 20
    /\ \E i \in DOMAIN deputies : deputies[i].name = Focus
    /\ GroupTotal(expenses.groups[Second].txns) = SpendBelow
    /\ \A i \in DOMAIN deputies : deputies[i].name # Second
    /\ expenses.groups[Focus].party = "PA"
    /\ party_stats["PA"].n = NumDeputies - 1

\* the entries the conditions of a returned record call for, in the order
\* concentration, top payee, round numbers, digit anomaly, party, region
ExpectedFlags(d) ==
    (IF d.hhi.value > 2500 THEN <<"hhi">> ELSE <<>>)
    \o (IF TopTrigger(d) THEN <<"top">> ELSE <<>>)
    \o (IF RoundTrigger(d) THEN <<"round">> ELSE <<>>)
    \o (IF BenfordTrigger(d) THEN <<"benford">> ELSE <<>>)
    \o (IF PartyTrigger(d) THEN <<"zparty">> ELSE <<>>)
    \o (IF StateTrigger(d) THEN <<"zstate">> ELSE <<>>)

\* C11: the redFlags of every returned record are exactly the entries of
\* the conditions that hold, one each, in the fixed order concentration,
\* top payee, round numbers, digit anomaly, party z-score, region z-score.
C11_FlagsInOrder ==
    Returned =>
        \A i \in DOMAIN deputies : deputies[i].redFlags = ExpectedFlags(deputies[i])

\* a returned record with all six entries, and one with none
C11_Witness ==
    /\ Scored
    /\ \E i \in DOMAIN deputies :
          deputies[i].redFlags = <<"hhi", "top", "round", "benford", "zparty", "zstate">>
    /\ \E i \in DOMAIN deputies : deputies[i].redFlags = <<>>

\* C13: the index of the group being processed maps to tier and base
\* score by strict cut points: > 3000 CRITICO/0.90, otherwise > 2500
\* ALTO/0.70, otherwise > 1500 MEDIO/0.40, otherwise BAIXO/0.20.
C13_StrictCutPoints ==
    pc = "p1_round" =>
        LET v == loc.hhi_value
            tier == <<loc.risk_level, loc.risk_score>>
        IN /\ v > 3000 => tier = <<"CRITICO", 900>>
           /\ (v > 2500 /\ v <= 3000) => tier = <<"ALTO", 700>>
           /\ (v > 1500 /\ v <= 2500) => tier = <<"MEDIO", 400>>
           /\ v <= 1500 => tier = <<"BAIXO", 200>>

\* the boundary value 3000 has been classified ALTO/0.70
C13_Witness ==
    /\ pc = "p1_round"
    /\ loc.hhi_value = 3000
    /\ loc.risk_level = "ALTO"
    /\ loc.risk_score = 700

----------------------------------------------------------------------------
(* calculate_benford_analysis as a state machine of its own.  A sample is  *)
(* 45 amounts with Benford-like leading digits plus up to MaxExtra copies  *)
(* of each of two free amounts.                                            *)

BaseDigits == <<14, 8, 6, 4, 4, 3, 2, 2, 2>>

\* the free amounts, in centavos: missing, negative, zero, 0.05, 0.5, 1.0,
\* 9.0 and 12.05
ExtraAmounts == {NaN, -500, 0, 5, 50, 100, 900, 1205}

BenfordSamples ==
    {[d \in Digits |-> [amt |-> d * 100 + 50, n |-> BaseDigits[d], sup |-> "s3"]]
        \o SelectSeq(<<[amt |-> x1, n |-> a, sup |-> "s3"],
                       [amt |-> x2, n |-> b, sup |-> "s3"]>>,
                     LAMBDA run : run.n > 0) :
        x1 \in ExtraAmounts, x2 \in ExtraAmounts,
        a \in 0..MaxExtra, b \in 0..MaxExtra}

InitBenford ==
    /\ pc = "cb_start"
    /\ values \in BenfordSamples
    /\ first_digits = <<>>
    /\ benford_result = NoBenford
    /\ IdleDeputies
    /\ IdleMain
    /\ pair = NoPair

\* first_digits = values.apply(get_first_digit).dropna()
CbFirstDigits ==
    /\ pc = "cb_start"
    /\ first_digits' = FirstDigits(values)
    /\ pc' = "cb_count"
    /\ UNCHANGED <<expenses, hhi_df, idx, loc, deputies, party_stats, state_stats,
                   values, benford_result, df, validation, saved, pair>>

\* "if len(first_digits) < 50": the neutral result is returned
CbTooFew ==
    /\ pc = "cb_count"
    /\ LenDigits(first_digits) < MinDigits
    /\ benford_result' = NeutralBenford
    /\ pc' = "cb_return"
    /\ UNCHANGED <<expenses, hhi_df, idx, loc, deputies, party_stats, state_stats,
                   values, first_digits, df, validation, saved, pair>>

\* the chi-squared test on the counts of the digits 1..9
CbTest ==
    /\ pc = "cb_count"
    /\ LenDigits(first_digits) >= MinDigits
    /\ benford_result' = BenfordResult(first_digits)
    /\ pc' = "cb_return"
    /\ UNCHANGED <<expenses, hhi_df, idx, loc, deputies, party_stats, state_stats,
                   values, first_digits, df, validation, saved, pair>>

NextBenford ==
    \/ CbFirstDigits
    \/ CbTooFew
    \/ CbTest

SpecBenford == InitBenford /\ [][NextBenford]_vars

\* the floor-sum chi2 is never so close below a critical value that the
\* exact statistic could lie on the other side of it
Chi2Resolved ==
    (pc = "cb_return" /\ LenDigits(first_digits) >= MinDigits) =>
        /\ Chi2(first_digits) \notin (Chi2Critical005 - 9)..Chi2Critical005
        /\ Chi2(first_digits) \notin (Chi2Critical001 - 9)..Chi2Critical001

\* amounts of the sample that have a leading digit: positive and not missing
RECURSIVE ValidCount(_)
ValidCount(vals) ==
    IF vals = <<>> THEN 0
    ELSE (IF ~IsNa(Head(vals).amt) /\ Head(vals).amt > 0 THEN Head(vals).n ELSE 0)
         + ValidCount(Tail(vals))

\* C4: on a sample with fewer than 50 valid leading digits the analysis
\* returns significant = false and pValue = 0.10, with the nine observed
\* frequencies equal to 0.
C4_SmallSampleNeutral ==
    (pc = "cb_return" /\ ValidCount(values) < 50) =>
        /\ benford_result.significant = FALSE
        /\ benford_result.pValue = 100
        /\ \A d \in Digits : benford_result.digitDistribution[d].observed = 0

\* 1000 * SUM over the digits 1..9 of (observed - expected)^2 / expected,
\* expected = total * percentage / 100, each term rounded down: the exact
\* statistic times 1000 lies in [StatisticLow, StatisticLow + 9]
StatisticLow(counts) ==
    LET total == SumSeq([d \in 1..9 |-> counts[d]])
        pct == <<301, 176, 125, 97, 79, 67, 58, 51, 46>>
    IN SumSeq([d \in 1..9 |->
                 SquareDiv(Abs(1000 * counts[d] - total * pct[d]), total * pct[d])])

\* C14: for a sample with at least 50 valid digits the result is bucketed
\* strictly on the chi-squared statistic of the digit counts: > 20.09 gives
\* significant with pValue 0.01, otherwise > 15.51 significant with pValue
\* 0.05, otherwise not significant with pValue 0.10; no other pValue occurs.
C14_Chi2Buckets ==
    (pc = "cb_return" /\ ValidCount(values) >= 50) =>
        LET low == StatisticLow(first_digits)
            r == benford_result
        IN /\ r.pValue \in {10, 50, 100}
           /\ low > 20090 => (r.significant /\ r.pValue = 10)
           /\ (low > 15510 /\ low + 9 <= 20090) => (r.significant /\ r.pValue = 50)
           /\ low + 9 <= 15510 => (~r.significant /\ r.pValue = 100)
           /\ low \notin (15510 - 9)..15510
           /\ low \notin (20090 - 9)..20090

\* a sample of 50 digits whose statistic lies between the critical values
C14_Witness ==
    /\ pc = "cb_return"
    /\ ValidCount(values) >= 50
    /\ StatisticLow(first_digits) > 15510
    /\ StatisticLow(first_digits) + 9 <= 20090
    /\ benford_result.pValue = 50

\* the most significant decimal digit of a positive number of centavos
RECURSIVE LeadingDigit(_)
LeadingDigit(n) == IF n < 10 THEN n ELSE LeadingDigit(n \div 10)

\* C7: every positive amount of the sample gets its first significant digit,
\* a value in 1..9; a non-positive or missing amount gets none; digit 0 is
\* never counted in first_digits.
C7_FirstSignificantDigit ==
    pc # "cb_start" =>
        /\ \A i \in DOMAIN values :
              LET amt == values[i].amt
              IN IF ~IsNa(amt) /\ amt > 0
                 THEN GetFirstDigit(amt) \in 1..9
                      /\ GetFirstDigit(amt) = LeadingDigit(amt)
                 ELSE GetFirstDigit(amt) = None
        /\ first_digits[0] = 0

----------------------------------------------------------------------------
(* validate_expenses and main.  The expense table is described by what the *)
(* checks look at: whether it is empty, which required columns it has, and *)
(* which findings its rows produce.                                        *)

\* outcome of validate_expenses_df on the sample: not available, all rows
\* valid, some rows invalid, an exception
SchemaOutcomes == {"skipped", "valid", "invalid", "raises"}

ExpenseFrames ==
    {f \in [empty : BOOLEAN,
            deputy_col : BOOLEAN, value_col : BOOLEAN,
            numAno : BOOLEAN, numMes : BOOLEAN,
            negatives : BOOLEAN, null_deputy : BOOLEAN, null_value : BOOLEAN,
            year_out : BOOLEAN, month_out : BOOLEAN,
            schema : SchemaOutcomes] :
        /\ (f.negatives \/ f.null_value) => f.value_col
        /\ f.null_deputy => f.deputy_col
        /\ f.year_out => f.numAno
        /\ f.month_out => f.numMes
        /\ f.empty => ~(f.negatives \/ f.null_deputy \/ f.null_value
                        \/ f.year_out \/ f.month_out)
        /\ f.empty => f.schema = "skipped"}

Flag(cond, tag) == IF cond THEN <<tag>> ELSE <<>>

\* Stage 1 without the loop over numAno / numMes
MissingColumnsNoPeriod(f) ==
    Flag(~f.deputy_col, "missing_deputy")
    \o Flag(~f.value_col, "missing_value")

\* Stage 1: the errors for absent required columns
MissingColumns(f) ==
    Flag(~f.deputy_col, "missing_deputy")
    \o Flag(~f.value_col, "missing_value")
    \o Flag(~f.numAno, "missing_numAno")
    \o Flag(~f.numMes, "missing_numMes")

\* validate_expenses: (is_valid, errors, warnings)
ValidateExpenses(f) ==
    IF f.empty
    THEN [is_valid |-> TRUE, errors |-> <<>>, warnings |-> <<"empty">>]
    ELSE IF MissingColumns(f) # <<>>
    THEN [is_valid |-> FALSE, errors |-> MissingColumns(f), warnings |-> <<>>]
    ELSE LET warnings ==
                 Flag(f.schema = "invalid", "schema_issues")
                 \o Flag(f.schema = "raises", "schema_error")
                 \o Flag(f.value_col /\ f.negatives, "negatives")
                 \o Flag(f.deputy_col /\ f.null_deputy, "null_deputy")
                 \o Flag(f.value_col /\ f.null_value, "null_value")
                 \o Flag(f.numAno /\ f.year_out, "year_range")
             errors == Flag(f.numMes /\ f.month_out, "invalid_months")
         IN [is_valid |-> Len(errors) = 0, errors |-> errors, warnings |-> warnings]

\* the files main writes, in order
OutputFiles ==
    <<"aggregations.json", "deputies.json", "fraud-flags.json",
      "mismatches.json", "manifest.json">>

InitMain ==
    /\ pc = "main_validate"
    /\ df \in ExpenseFrames
    /\ validation = NoValidation
    /\ saved = <<>>
    /\ IdleDeputies
    /\ IdleBenford
    /\ pair = NoPair

\* is_valid, errors, warnings = validate_expenses(data["expenses"])
MainValidate ==
    /\ pc = "main_validate"
    /\ validation' = ValidateExpenses(df)
    /\ pc' = "main_check"
    /\ UNCHANGED <<expenses, hhi_df, idx, loc, deputies, party_stats, state_stats,
                   values, first_digits, benford_result, df, saved, pair>>

\* "if not is_valid: ... return"
MainAbort ==
    /\ pc = "main_check"
    /\ ~validation.is_valid
    /\ pc' = "main_return"
    /\ UNCHANGED <<expenses, hhi_df, idx, loc, deputies, party_stats, state_stats,
                   values, first_digits, benford_result, df, validation, saved, pair>>

\* generate_aggregations and save_json(aggregations, "aggregations.json")
MainAggregations ==
    /\ pc = "main_check"
    /\ validation.is_valid
    /\ saved' = Append(saved, OutputFiles[1])
    /\ pc' = "main_deputies"
    /\ UNCHANGED <<expenses, hhi_df, idx, loc, deputies, party_stats, state_stats,
                   values, first_digits, benford_result, df, validation, pair>>

\* generate_deputies and save_json(deputies, "deputies.json")
MainDeputies ==
    /\ pc = "main_deputies"
    /\ saved' = Append(saved, OutputFiles[2])
    /\ pc' = "main_fraud"
    /\ UNCHANGED <<expenses, hhi_df, idx, loc, deputies, party_stats, state_stats,
                   values, first_digits, benford_result, df, validation, pair>>

\* generate_fraud_flags and save_json(fraud_flags, "fraud-flags.json")
MainFraud ==
    /\ pc = "main_fraud"
    /\ saved' = Append(saved, OutputFiles[3])
    /\ pc' = "main_mismatches"
    /\ UNCHANGED <<expenses, hhi_df, idx, loc, deputies, party_stats, state_stats,
                   values, first_digits, benford_result, df, validation, pair>>

\* generate_mismatches and save_json(mismatches, "mismatches.json")
MainMismatches ==
    /\ pc = "main_mismatches"
    /\ saved' = Append(saved, OutputFiles[4])
    /\ pc' = "main_manifest"
    /\ UNCHANGED <<expenses, hhi_df, idx, loc, deputies, party_stats, state_stats,
                   values, first_digits, benford_result, df, validation, pair>>

\* generate_manifest and save_json(manifest, "manifest.json")
MainManifest ==
    /\ pc = "main_manifest"
    /\ saved' = Append(saved, OutputFiles[5])
    /\ pc' = "main_return"
    /\ UNCHANGED <<expenses, hhi_df, idx, loc, deputies, party_stats, state_stats,
                   values, first_digits, benford_result, df, validation, pair>>

NextMain ==
    \/ MainValidate
    \/ MainAbort
    \/ MainAggregations
    \/ MainDeputies
    \/ MainFraud
    \/ MainMismatches
    \/ MainManifest

SpecMain == InitMain /\ [][NextMain]_vars

RequiredPresent(f) == f.deputy_col /\ f.value_col /\ f.numAno /\ f.numMes

QualityProblem(f) ==
    f.negatives \/ f.null_deputy \/ f.null_value \/ f.year_out \/ f.month_out

\* C5: a table that has its required columns and only data-quality problems
\* (nulls, years out of range, months outside 1..12, negative amounts) is
\* valid with no errors, and main saves all five files.
C5_QualityOnlyWarns ==
    (pc # "main_validate" /\ RequiredPresent(df) /\ QualityProblem(df)) =>
        /\ validation.is_valid
        /\ validation.errors = <<>>
        /\ pc = "main_return" => saved = OutputFiles

\* C6 as stated: every table lacking a required column is invalid and main
\* returns without saving anything.
C6_MissingColumnFatal ==
    (pc # "main_validate" /\ ~RequiredPresent(df)) =>
        /\ ~validation.is_valid
        /\ pc \in {"main_check", "main_return"}
        /\ saved = <<>>

\* C6: every non-empty table lacking a required column is invalid, and main
\* returns without any generate_* or save_json call.
C6_MissingColumnFatalNonEmpty ==
    (pc # "main_validate" /\ ~df.empty /\ ~RequiredPresent(df)) =>
        /\ ~validation.is_valid
        /\ validation.errors # <<>>
        /\ pc \in {"main_check", "main_return"}
        /\ saved = <<>>

\* main has returned on a populated table that lacks only numMes
C6_Witness ==
    /\ pc = "main_return"
    /\ ~df.empty
    /\ df.deputy_col /\ df.value_col /\ df.numAno /\ ~df.numMes
    /\ ~validation.is_valid
    /\ saved = <<>>

----------------------------------------------------------------------------
(* The scoring steps of generate_deputies applied side by side to two      *)
(* legislators whose evidence differs in one trigger only.                 *)

\* 20% and 25% of round values; a top supplier with 50% and with 50.0005%
RoundPcts == [off |-> [num |-> 100 * 4, den |-> 20], on |-> [num |-> 100 * 5, den |-> 20]]
TopPcts == [off |-> [num |-> 100 * 2500000, den |-> SpendFloor],
            on |-> [num |-> 100 * 2500025, den |-> SpendFloor]]

TriggerNames == {"round", "benford", "top", "zparty", "zstate"}

\* the inputs of the scoring steps for one legislator
Evidence(hhi_value, on) ==
    [hhi_value |-> hhi_value,
     round_value_pct |-> IF "round" \in on THEN RoundPcts.on ELSE RoundPcts.off,
     benford_result |-> [significant |-> "benford" \in on],
     top_suppliers |-> <<[pct |-> IF "top" \in on THEN TopPcts.on ELSE TopPcts.off]>>,
     z_party |-> "zparty" \in on,
     z_state |-> "zstate" \in on,
     risk_score |-> 0, risk_level |-> ""]

EvidencePairs ==
    {[lo |-> Evidence(v, on), hi |-> Evidence(v, on \cup {t}), trigger |-> t] :
        v \in HhiValues, t \in TriggerNames, on \in SUBSET TriggerNames} \
    {[lo |-> Evidence(v, on), hi |-> Evidence(v, on), trigger |-> t] :
        v \in HhiValues, t \in TriggerNames, on \in SUBSET TriggerNames}

StepBase(e) ==
    [e EXCEPT !.risk_score = BaseRisk(e.hhi_value).risk_score,
              !.risk_level = BaseRisk(e.hhi_value).risk_level]
StepRound(e) ==
    [e EXCEPT !.risk_score = AddRound(e.risk_score, e.round_value_pct)]
StepBenford(e) ==
    [e EXCEPT !.risk_score = AddBenford(e.risk_score, e.benford_result)]
StepPeer(e) ==
    LET score == PeerScore([riskScore |-> e.risk_score,
                            topSuppliers |-> e.top_suppliers],
                           e.z_party, e.z_state)
    IN [e EXCEPT !.risk_score = score, !.risk_level = RiskLevel(score)]

InitScore ==
    /\ pc = "sc_base"
    /\ pair \in EvidencePairs
    /\ IdleDeputies
    /\ IdleBenford
    /\ IdleMain

\* "Determine risk level"
ScoreBase ==
    /\ pc = "sc_base"
    /\ pair' = [pair EXCEPT !.lo = StepBase(pair.lo), !.hi = StepBase(pair.hi)]
    /\ pc' = "sc_round"
    /\ UNCHANGED <<expenses, hhi_df, idx, loc, deputies, party_stats, state_stats,
                   values, first_digits, benford_result, df, validation, saved>>

\* "if round_value_pct > 20"
ScoreRound ==
    /\ pc = "sc_round"
    /\ pair' = [pair EXCEPT !.lo = StepRound(pair.lo), !.hi = StepRound(pair.hi)]
    /\ pc' = "sc_benford"
    /\ UNCHANGED <<expenses, hhi_df, idx, loc, deputies, party_stats, state_stats,
                   values, first_digits, benford_result, df, validation, saved>>

\* "if benford_result['significant']"
ScoreBenford ==
    /\ pc = "sc_benford"
    /\ pair' = [pair EXCEPT !.lo = StepBenford(pair.lo), !.hi = StepBenford(pair.hi)]
    /\ pc' = "sc_peer"
    /\ UNCHANGED <<expenses, hhi_df, idx, loc, deputies, party_stats, state_stats,
                   values, first_digits, benford_result, df, validation, saved>>

\* the second pass: peer increments, cap, tier
ScorePeer ==
    /\ pc = "sc_peer"
    /\ pair' = [pair EXCEPT !.lo = StepPeer(pair.lo), !.hi = StepPeer(pair.hi)]
    /\ pc' = "sc_return"
    /\ UNCHANGED <<expenses, hhi_df, idx, loc, deputies, party_stats, state_stats,
                   values, first_digits, benford_result, df, validation, saved>>

NextScore ==
    \/ ScoreBase
    \/ ScoreRound
    \/ ScoreBenford
    \/ ScorePeer

SpecScore == InitScore /\ [][NextScore]_vars

TierRank(level) ==
    CASE level = "BAIXO" -> 0
      [] level = "MEDIO" -> 1
      [] level = "ALTO" -> 2
      [] level = "CRITICO" -> 3

\* C9: of two legislators that differ only in one trigger, false for the
\* first and true for the second, the second has a final riskScore at least
\* the first's and a final tier that is not lower.
C9_MonotoneInTrigger ==
    pc = "sc_return" =>
        /\ pair.hi.risk_score >= pair.lo.risk_score
        /\ TierRank(pair.hi.risk_level) >= TierRank(pair.lo.risk_level)

\* a pair on which the round-number trigger raises the score and the tier
C9_Witness ==
    /\ pc = "sc_return"
    /\ pair.trigger = "round"
    /\ pair.hi.risk_score > pair.lo.risk_score
    /\ TierRank(pair.hi.risk_level) > TierRank(pair.lo.risk_level)

----------------------------------------------------------------------------
(* One legislator's profile taken through the loop body of pass 1, the     *)
(* filter, the peer statistics and pass 2.  The loop has already appended  *)
(* the legislator's party peers (other states) and state peers (other      *)
(* parties); the aggregates of the current group are given directly.       *)

\* total spend of the profiled legislator: 100,000.25
ProfileSpend == 2 * SpendFloor + 25

\* a total spend whose double has a full significand: 176,694.69
TiedSpend == 17669469

\* spends of the peers in one group, by the z-score they give the profiled
\* legislator: 2.5, exactly 2.0, 2.0034, -2.5, none (alone), none (all equal)
PeerKinds == {"z25", "z20", "z2003", "below", "alone", "same"}

\* groups in which every member spends TiedSpend, or the legislator is alone
TiedKinds == {"alone", "tied"}

\* groups of four peers at EdgePeerSpend, or the legislator is alone
EdgeKinds == {"alone", "edge"}

\* party peers, state peers and the profiled legislator's own spend
ProfileCases ==
    {<<pk, sk, ProfileSpend>> : pk \in PeerKinds, sk \in PeerKinds}
    \cup {<<pk, sk, TiedSpend>> : pk \in TiedKinds, sk \in TiedKinds}
    \cup {<<pk, sk, EdgeSpend>> : pk \in EdgeKinds, sk \in EdgeKinds}

PeerSpends(kind) ==
    CASE kind = "z25" ->
           [i \in 1..9 |-> 2 * SpendFloor + <<-5, -5, -5, -5, -5, 5, -5, 10, -10>>[i]]
      [] kind = "z20" ->
           [i \in 1..4 |-> 2 * SpendFloor]
      [] kind = "z2003" ->
           [i \in 1..5 |-> 2 * SpendFloor + <<8, -8, 0, 0, 0>>[i]]
      [] kind = "below" ->
           [i \in 1..9 |-> 2 * SpendFloor + 50 + <<5, 5, 5, 5, 5, -5, 5, -10, 10>>[i]]
      [] kind = "alone" -> <<>>
      [] kind = "same" -> <<ProfileSpend, ProfileSpend>>
      [] kind = "tied" -> <<TiedSpend, TiedSpend>>
      [] kind = "edge" -> <<EdgePeerSpend, EdgePeerSpend, EdgePeerSpend, EdgePeerSpend>>

\* the locals of the loop body after the base score, from given aggregates
ProfileLoc(name, party, uf, spend, hhi_value, round_value_pct, top_share, benford) ==
    [name |-> name,
     total_spending |-> spend,
     transaction_count |-> 60,
     round_value_pct |-> round_value_pct,
     party |-> party, uf |-> uf,
     hhi_value |-> hhi_value, hhi_level |-> UpperLabel(HhiLabel(hhi_value)),
     risk_level |-> BaseRisk(hhi_value).risk_level,
     risk_score |-> BaseRisk(hhi_value).risk_score,
     top_suppliers |-> <<[name |-> "s1", value |-> top_share,
                          pct |-> [num |-> 100 * top_share, den |-> 100]]>>,
     benford_result |-> benford,
     red_flags |-> <<>>]

\* a peer as pass 1 leaves it: no evidence, lowest base score
PeerRecord(id, party, uf, spend) ==
    DeputyRecord(id, ProfileLoc(id, party, uf, spend, 1000,
                                [num |-> 0, den |-> 60], 10, NeutralBenford))

\* the list after the loop has processed the peers
ProfilePeers(pkind, skind) ==
    LET pp == PeerSpends(pkind)
        sp == PeerSpends(skind)
    IN [i \in 1..Len(pp) |-> PeerRecord(i, "PA", "RJ", pp[i])]
       \o [i \in 1..Len(sp) |-> PeerRecord(Len(pp) + i, "PB", "SP", sp[i])]

ProfileIndexes == {1000, 2000, 2800, 3500}
ProfileRoundPcts == {[num |-> 100 * 9, den |-> 60], [num |-> 100 * 15, den |-> 60]}
ProfileTopShares == {40, 60}
ProfileBenfords ==
    {CalculateBenfordAnalysis(Txns(SpendFloor, 50, skew, FALSE, FALSE)) :
        skew \in BOOLEAN}

InitProfile ==
    /\ pc = "p1_round"
    /\ \E c \in ProfileCases :
          /\ deputies = ProfilePeers(c[1], c[2])
          /\ idx = Len(deputies)
          /\ \E v \in ProfileIndexes, r \in ProfileRoundPcts,
                t \in ProfileTopShares, b \in ProfileBenfords :
                loc = ProfileLoc(0, "PA", "SP", c[3], v, r, t, b)
    /\ expenses = EmptyExpenses
    /\ hhi_df = [shape |-> "empty", rows |-> <<>>]
    /\ party_stats = NoStats
    /\ state_stats = NoStats
    /\ IdleBenford
    /\ IdleMain
    /\ pair = NoPair

\* deputies.append(deputy) for the last group of the table
ProfileAppend ==
    /\ pc = "p1_append"
    /\ deputies' = Append(deputies, DeputyRecord(idx + 1, loc))
    /\ idx' = idx + 1
    /\ pc' = "filter"
    /\ UNCHANGED <<expenses, hhi_df, loc, party_stats, state_stats,
                   values, first_digits, benford_result, df, validation, saved, pair>>

NextProfile ==
    \/ Pass1Round
    \/ Pass1Benford
    \/ ProfileAppend
    \/ Filter
    \/ ComputeStats
    \/ Pass2Deputy
    \/ SortDeputies

SpecProfile == InitProfile /\ [][NextProfile]_vars

\* the profiled legislator's record in the list
IsProfiled(d) == d.name = 0

\* z <= 2.0 for a spend against its group: the spend is not above the mean,
\* or its deviation is below two standard deviations, or exactly two and
\* not raised above 2.0 by the rounding of the double arithmetic
ZAtMostTwo(spending, st) ==
    LET dev == st.n * spending - st.sum
    IN \/ dev <= 0
       \/ st.unit /\ dev <= 2 * 100 * st.n
       \/ st.noise # 0
       \/ ~st.unit /\ st.n * dev * dev < 4 * st.dev2
       \/ ~st.unit /\ st.n * dev * dev = 4 * st.dev2 /\ spending \notin st.edge

\* C12: a legislator that passes the filter with index 3500, 25% round
\* values, a significant digit anomaly, a top payee share of 60%, party
\* z-score 2.5 and region z-score not above 2.0 is returned with riskScore
\* 1.00, riskLevel CRITICO and the five entries concentration, top payee,
\* round numbers, digit anomaly, party z-score, in this order.
C12_Scenario ==
    Returned =>
        \A i \in DOMAIN deputies :
            LET d == deputies[i]
            IN (/\ IsProfiled(d)
                /\ d.hhi.value = 3500
                /\ d.roundValuePct.num = 25 * d.roundValuePct.den
                /\ d.benford.significant
                /\ d.topSuppliers[1].pct.num = 60 * d.topSuppliers[1].pct.den
                /\ d.zScoreParty = 250
                /\ ZAtMostTwo(d.totalSpending, state_stats[d.uf]))
               => /\ d.riskScore = 1000
                  /\ d.riskLevel = "CRITICO"
                  /\ d.redFlags = <<"hhi", "top", "round", "benford", "zparty">>

\* the scenario's legislator has been returned, with region z-score -2.5
C12_Witness ==
    /\ Returned
    /\ \E i \in DOMAIN deputies :
          LET d == deputies[i]
          IN /\ IsProfiled(d)
             /\ d.hhi.value = 3500
             /\ d.roundValuePct.num = 25 * d.roundValuePct.den
             /\ d.benford.significant
             /\ d.topSuppliers[1].pct.num = 60 * d.topSuppliers[1].pct.den
             /\ d.zScoreParty = 250
             /\ d.zScoreState = -250
             /\ d.riskScore = 1000
             /\ Len(d.redFlags) = 5

----------------------------------------------------------------------------
(* generate_deputies on a table with a single legislator whose amounts     *)
(* are whole, fractional, round, negative, zero or missing.                *)

\* missing, -100.00, 0.00, 1.00, 100.00, 150.00, 200.50
RoundAmounts == {NaN, -10000, 0, 100, 10000, 15000, 20050}
RoundRuns == {1, 10}

RoundTables ==
    {[empty |-> FALSE, supplier_col |-> TRUE,
      groups |-> <<[name |-> 1, party |-> "PA", uf |-> "SP",
                    txns |-> <<[amt |-> x1, n |-> a, sup |-> "s1"],
                               [amt |-> x2, n |-> b, sup |-> "s2"],
                               [amt |-> SpendFloor, n |-> 1, sup |-> "s3"]>>]>>] :
        x1 \in RoundAmounts, x2 \in RoundAmounts, a \in RoundRuns, b \in RoundRuns}

InitRound ==
    /\ pc = "gd_start"
    /\ expenses \in RoundTables
    /\ hhi_df = [shape |-> "empty", rows |-> <<>>]
    /\ idx = 0
    /\ loc = NoLoc
    /\ deputies = <<>>
    /\ party_stats = NoStats
    /\ state_stats = NoStats
    /\ IdleBenford
    /\ IdleMain
    /\ pair = NoPair

NextRound ==
    \/ Pass1Group
    \/ Pass1Round
    \/ Pass1Benford
    \/ Pass1Append
    \/ Filter
    \/ ComputeStats
    \/ Pass2Deputy
    \/ SortDeputies

SpecRound == InitRound /\ [][NextRound]_vars

\* an exact whole number of BRL that is a multiple of 100
WholeMultipleOf100(cents) ==
    /\ cents # NaN
    /\ \E k \in -500..500 : cents = k * 100 * 100

\* the runs of the group being processed
CurrentTxns == expenses.groups[idx + 1].txns

AllSpendAlike(deps, field, d) ==
    \A j \in DOMAIN deps :
        deps[j][field] = d[field] => deps[j].totalSpending = d.totalSpending

\* C16: a legislator alone in a party or region, or in a group whose members
\* all have the same total spend, is returned with z-score 0.0 on that axis
\* and without that axis's evidence entry.
C16_DegenerateGroupZero ==
    Returned =>
        \A i \in DOMAIN deputies :
            LET d == deputies[i]
            IN /\ AllSpendAlike(deputies, "party", d)
                    => d.zScoreParty = 0 /\ "zparty" \notin {d.redFlags[k] : k \in DOMAIN d.redFlags}
               /\ AllSpendAlike(deputies, "uf", d)
                    => d.zScoreState = 0 /\ "zstate" \notin {d.redFlags[k] : k \in DOMAIN d.redFlags}

\* the pass-1 score plus the increments of pass 2 for the given axes
Pass2Sum(d, party_axis, state_axis) ==
    d.riskScore + (IF TopAbove(d.topSuppliers) THEN 100 ELSE 0)
                + (IF party_axis THEN 80 ELSE 0) + (IF state_axis THEN 80 ELSE 0)

StdPositive(st) == st.unit \/ st.dev2 > 0 \/ st.noise # 0

\* C18: every stored party and region std is above zero, 1 standing in for
\* the std of a group of fewer than 2 members or with computed deviation 0;
\* every zScoreParty and zScoreState of the returned list is a number.
C18_StdPositive ==
    /\ \A key \in DOMAIN party_stats :
          /\ StdPositive(party_stats[key])
          /\ party_stats[key].unit <=>
                (party_stats[key].n < 2
                 \/ (party_stats[key].dev2 = 0 /\ party_stats[key].noise = 0))
    /\ \A key \in DOMAIN state_stats :
          /\ StdPositive(state_stats[key])
          /\ state_stats[key].unit <=>
                (state_stats[key].n < 2
                 \/ (state_stats[key].dev2 = 0 /\ state_stats[key].noise = 0))
    /\ Returned =>
          \A i \in DOMAIN deputies :
              deputies[i].zScoreParty # NaN /\ deputies[i].zScoreState # NaN

\* returned from a run in which a party of three equal spends had its zero
\* deviation replaced by 1 and the region had a single member
C18_Witness ==
    /\ Returned
    /\ \E key \in DOMAIN party_stats :
          /\ party_stats[key].n = 3
          /\ party_stats[key].dev2 = 0
          /\ party_stats[key].unit
    /\ \E key \in DOMAIN state_stats : state_stats[key].n = 1
    /\ \E i \in DOMAIN deputies :
          /\ IsProfiled(deputies[i])
          /\ deputies[i].zScoreParty = 0
          /\ deputies[i].zScoreState = 0

\* no peer comparison has left a trace on the record
NoPeerResult(d) ==
    /\ "zScoreParty" \notin DOMAIN d
    /\ "zScoreState" \notin DOMAIN d
    /\ \A k \in DOMAIN d.redFlags : d.redFlags[k] \notin {"zparty", "zstate"}

\* the table of one axis holds the mean/std of all of deps, group by group
StatsOfAll(stats, deps, field) ==
    /\ DOMAIN stats = {deps[i][field] : i \in DOMAIN deps}
    /\ \A key \in DOMAIN stats :
          stats[key] = GroupStats(SpendingOf(deps, field, key))

\* C19: until the second pass starts no record carries a z-score or a
\* peer entry; the first step of the second pass finds the list holding
\* exactly the legislators of the table that passed the activity floors and
\* both statistics tables computed from all of them; every step of the
\* second pass works on a record not yet compared and leaves the tables as
\* they are, so the last legislator is compared with the same statistics
\* as the first.
C19_TwoPassBarrier ==
    /\ [](pc \notin {"p2", "gd_return"} =>
            \A i \in DOMAIN deputies : NoPeerResult(deputies[i]))
    /\ [][(pc = "p2" /\ idx' = idx + 1) =>
            /\ idx = 0 =>
                  /\ \A eligible \in {Eligible(expenses.groups)} :
                        /\ Len(deputies) = Len(eligible)
                        /\ \A i \in DOMAIN deputies :
                              /\ deputies[i].name = eligible[i].name
                              /\ deputies[i].totalSpending = eligible[i].totalSpending
                  /\ StatsOfAll(party_stats, deputies, "party")
                  /\ StatsOfAll(state_stats, deputies, "uf")
            /\ \A i \in (idx + 1)..Len(deputies) : NoPeerResult(deputies[i])
            /\ party_stats' = party_stats
            /\ state_stats' = state_stats]_vars

\* the second pass has adjusted the last survivor of a table with one filtered
\* legislator: the first stands below its party's mean and the last two
\* deviations or more above it, by the same statistics
C19_Witness ==
    /\ pc = "p2"
    /\ idx = Len(deputies)
    /\ Len(deputies) = Len(expenses.groups) - 1
    /\ deputies[1].party = deputies[Len(deputies)].party
    /\ deputies[1].zScoreParty < 0
    /\ deputies[Len(deputies)].zScoreParty >= 200

\* the keys that an iteration of the second pass may write
Pass2Writes == {"zScoreParty", "zScoreState", "riskScore", "riskLevel", "redFlags"}

\* C20: an iteration of the second pass writes only the five keys
\* zScoreParty, zScoreState, riskScore, riskLevel and redFlags of the
\* legislator it adjusts; every other record, every other key of that
\* record (totalSpending, party and region among them) and both statistics
\* tables stay as they were.
C20_Pass2Frame ==
    [][(pc = "p2" /\ idx' = idx + 1) =>
          /\ Len(deputies') = Len(deputies)
          /\ \A i \in DOMAIN deputies : i # idx + 1 => deputies'[i] = deputies[i]
          /\ DOMAIN deputies'[idx + 1] = DOMAIN deputies[idx + 1] \cup Pass2Writes
          /\ \A key \in DOMAIN deputies[idx + 1] \ Pass2Writes :
                deputies'[idx + 1][key] = deputies[idx + 1][key]
          /\ party_stats' = party_stats
          /\ state_stats' = state_stats]_vars

\* the second pass has moved the last legislator of the list to a tier above
\* its concentration level and left the first legislator's pass-1 score, with
\* that legislator's own z-scores, in place
C20_Witness ==
    /\ pc = "p2"
    /\ idx = Len(deputies)
    /\ Len(deputies) >= 2
    /\ "zparty" \in {deputies[idx].redFlags[k] : k \in DOMAIN deputies[idx].redFlags}
    /\ deputies[idx].riskLevel = "MEDIO"
    /\ deputies[idx].hhi.level = "BAIXO"
    /\ deputies[1].riskScore = 200
    /\ deputies[1].redFlags = <<>>
    /\ deputies[1].zScoreParty < 0

\* C21: the riskLevel of every returned legislator is at least the tier that
\* the concentration cut points give to its index, in the order
\* BAIXO < MEDIO < ALTO < CRITICO.
C21_TierNotBelowConcentration ==
    Returned =>
        \A i \in DOMAIN deputies :
            TierRank(deputies[i].riskLevel)
                >= TierRank(BaseRisk(deputies[i].hhi.value).risk_level)

\* a legislator of a non-empty table is returned two tiers above the tier of
\* its index, and another one exactly on it
C21_Witness ==
    /\ Scored
    /\ \E i \in DOMAIN deputies :
          /\ BaseRisk(deputies[i].hhi.value).risk_level = "BAIXO"
          /\ deputies[i].riskLevel = "ALTO"
    /\ \E i \in DOMAIN deputies :
          /\ BaseRisk(deputies[i].hhi.value).risk_level = "BAIXO"
          /\ deputies[i].riskLevel = "BAIXO"

\* the evidence entry of one axis is on the record
HasEntry(d, entry) == \E k \in DOMAIN d.redFlags : d.redFlags[k] = entry

\* C22 as stated: the penalty and evidence entry of an axis are on a returned
\* record if and only if the z-score reported on that axis, rounded to two
\* decimals, is above 2.0.
C22_PenaltyIffReported ==
    Returned =>
        \A i \in DOMAIN deputies :
            /\ HasEntry(deputies[i], "zparty") <=> deputies[i].zScoreParty > 200
            /\ HasEntry(deputies[i], "zstate") <=> deputies[i].zScoreState > 200

\* C22, amended: the penalty and evidence entry of an axis are on a returned
\* record if and only if the z-score before rounding is above 2.0; the
\* reported value is then at least 2.0, and a reported value above 2.0 always
\* comes with the entry.
C22_PenaltyIffUnrounded ==
    Returned =>
        \A i \in DOMAIN deputies :
            LET d == deputies[i]
            IN /\ HasEntry(d, "zparty")
                    <=> (/\ d.party \in DOMAIN party_stats
                         /\ ~ZAtMostTwo(d.totalSpending, party_stats[d.party]))
               /\ HasEntry(d, "zstate")
                    <=> (/\ d.uf \in DOMAIN state_stats
                         /\ ~ZAtMostTwo(d.totalSpending, state_stats[d.uf]))
               /\ HasEntry(d, "zparty") => d.zScoreParty >= 200
               /\ HasEntry(d, "zstate") => d.zScoreState >= 200
               /\ d.zScoreParty > 200 => HasEntry(d, "zparty")
               /\ d.zScoreState > 200 => HasEntry(d, "zstate")

\* the profiled legislator is returned with party z-score 2.0034, reported
\* as 2.0, and the party entry
C22_Witness ==
    /\ Returned
    /\ \E i \in DOMAIN deputies :
          /\ IsProfiled(deputies[i])
          /\ deputies[i].zScoreParty = 200
          /\ HasEntry(deputies[i], "zparty")
          /\ party_stats[deputies[i].party].n = 6

\* the number of returned legislators that share d's party or region
GroupSize(deps, field, d) ==
    Cardinality({j \in DOMAIN deps : deps[j][field] = d[field]})

\* C23: a returned legislator whose party (region) group has five members or
\* fewer has a z-score of at most 2.0 on that axis and carries neither the
\* penalty nor the evidence entry of that axis.
C23_SmallGroupNoPenalty ==
    Returned =>
        \A i \in DOMAIN deputies :
            LET d == deputies[i]
            IN /\ GroupSize(deputies, "party", d) <= 5
                    => /\ d.zScoreParty <= 200
                       /\ ZAtMostTwo(d.totalSpending, party_stats[d.party])
                       /\ ~HasEntry(d, "zparty")
               /\ GroupSize(deputies, "uf", d) <= 5
                    => /\ d.zScoreState <= 200
                       /\ ZAtMostTwo(d.totalSpending, state_stats[d.uf])
                       /\ ~HasEntry(d, "zstate")

====
